---- MODULE Spec2Model ----
(***************************************************************************)
(* Schema-to-model generation and drift verification of                    *)
(* civic-transparency-py-ptag-types (.github/scripts/*.py).                *)
(*                                                                         *)
(* A directory tree is a function from relative paths (sequences of path   *)
(* components) to regular files.  A text file is a record                  *)
(*   [pre, hdr, body, crlf, fmt]                                           *)
(* pre  : number of lines that precede the "# key: value" comment lines,   *)
(* hdr  : the "# key: value" comment lines, in file order,                 *)
(* body : the remaining text (an opaque token),                            *)
(* crlf : whether the file holds a CRLF sequence,                          *)
(* fmt  : whether ruff has formatted the file.                             *)
(***************************************************************************)
EXTENDS Integers, Sequences, FiniteSets, TLC

VARIABLES
  pkg,          \* installed schema package ci.transparency.ptag.spec: [sch, ver]
  platformCrlf, \* TRUE when text files are written with CRLF line ends (Windows)
  ptagTypes,    \* tree src/ci/transparency/ptag/types
  legacyTypes,  \* tree src/ci/transparency/types, or NoDir
  scriptsGen,   \* TRUE when <repo>/scripts/generate_types.py exists
  lpkg,         \* installed package ci.transparency.spec.schemas: name -> text
  runtimeOk,    \* TRUE when ci.transparency.types.Series imports and accepts points = []
  gen,          \* the generator process: [pc, i, shas, rc, err, out, before, runs];
                \* before: the output directory as the run in progress found it
  last,         \* history: [dir, pkg] of the last successful generation, or NoSnap
  prev,         \* history: value of last when the current generation started
  fresh,        \* history: nothing changed since the last successful generation
  changes,      \* history: number of schema package changes so far
  op,           \* history: the operation that made the last step
  res,          \* result of the last verifier run
  treeA,        \* first input tree of a tree comparison
  treeB,        \* second input tree of a tree comparison
  cmp,          \* result of the last tree comparison
  preflight,    \* the release preflight process
  tmpdirs       \* the temporary directories that exist (names from mkdtemp)

vars == <<pkg, platformCrlf, ptagTypes, legacyTypes, scriptsGen, lpkg, runtimeOk,
          gen, last, prev, fresh, changes, op, res, treeA, treeB, cmp, preflight,
          tmpdirs>>

None == "None"
\* No directory at that place: the root path itself maps to a marker.
NoDir == <<>> :> [c |-> "no directory", size |-> 0, m |-> "t0"]
NoSnap == [none |-> TRUE]
EmptyTree == [p \in {} |-> None]

\* ---------------------------------------------------------------- bounds
MaxRuns == 2
MaxChanges == 1

\* ------------------------------------------------------- schema package
SeriesSchema == "ptag_series.schema.json"
PtagSchema == "ptag.schema.json"
SchemaNames == {SeriesSchema, PtagSchema}

\* Schema texts the package may hold.  The compiler is an opaque function of the
\* schema text; the text decides whether it exits 0 and what it emits.
SeriesTexts == {"ser1", "ser2", "serBad", "serNoCls"}
PtagTexts == {"ptag1", "ptag2", "ptagBad", "ptagNoCls"}
Versions == {"0.1.0", "0.2.0"}

TextsOf(name) == IF name = SeriesSchema THEN SeriesTexts ELSE PtagTexts

\* Every installed state of the schema package: any subset of the two schema
\* files, each with one of its texts, and a version string.
Packages ==
  { [sch |-> s, ver |-> v] :
      s \in UNION { [D -> SeriesTexts \cup PtagTexts] : D \in SUBSET SchemaNames },
      v \in Versions }

WellTypedPkg(p) == \A n \in DOMAIN p.sch : p.sch[n] \in TextsOf(n)

\* ----------------------------------------------------------------- hashing
\* hashlib.sha256(text.encode("utf-8")).hexdigest(): a digest per text, distinct
\* texts having distinct digests (collision resistance).
_sha256_text(text) ==
  CASE text = "ser1" -> "5e01"
    [] text = "ser2" -> "5e02"
    [] text = "serBad" -> "5e0b"
    [] text = "serNoCls" -> "5e0c"
    [] text = "serNoSeries" -> "5e0d"
    [] text = "serNoPoints" -> "5e0e"
    [] text = "ptag1" -> "a601"
    [] text = "ptag2" -> "a602"
    [] text = "ptagBad" -> "a60b"
    [] text = "ptagNoCls" -> "a60c"
    [] text = "legacySer1" -> "cafef00d"
    [] text = "legacySer2" -> "0ddba11"
    [] text = "legacyTag1" -> "f00dface"
    [] OTHER -> "e3b0c442"

_schema_sha(p, schema_name) == _sha256_text(p.sch[schema_name])

\* ------------------------------------------------------------------ files
MkFile(hdr, body, crlf, fmt) ==
  [pre |-> 0, hdr |-> hdr, body |-> body, crlf |-> crlf, fmt |-> fmt]

Line(k, v) == [k |-> k, v |-> v]

\* Path.write_text: newline translation makes CRLF on a CRLF platform.
write_text(hdr, body, crlfPlatform) == MkFile(hdr, body, crlfPlatform, FALSE)

\* content.replace(b"\r\n", b"\n") on the bytes of a file, "CR" and "LF" being
\* the carriage return and the line feed: one pass from the left over the
\* occurrences that do not overlap.
RECURSIVE bytes_replace_crlf(_)
bytes_replace_crlf(content) ==
  IF content = <<>> THEN <<>>
  ELSE IF Len(content) >= 2 /\ content[1] = "CR" /\ content[2] = "LF"
  THEN <<"LF">> \o bytes_replace_crlf(SubSeq(content, 3, Len(content)))
  ELSE <<content[1]>> \o bytes_replace_crlf(Tail(content))

\* b"\r\n" in content
HasCrlf(content) ==
  \E k \in 1..(Len(content) - 1) : content[k] = "CR" /\ content[k + 1] = "LF"

\* _normalize_line_endings on the bytes of a file: [written, content].
normalize_bytes(content) ==
  IF HasCrlf(content)
  THEN [written |-> TRUE, content |-> bytes_replace_crlf(content)]
  ELSE [written |-> FALSE, content |-> content]

\* _normalize_line_endings on a file whose line ends are all of one kind (what
\* write_text and the tools write): crlf tells which.
_normalize_line_endings(f) == [f EXCEPT !.crlf = FALSE]

\* ruff format, then ruff check --fix: formats the code, keeps comments and line ends.
_format_with_ruff(f) == [f EXCEPT !.fmt = TRUE]

Put(dir, name, f) == (<<name>> :> f) @@ dir

Has(dir, name) == <<name>> \in DOMAIN dir

\* ------------------------------------------------------------- compiler
\* datamodel-code-generator's exit status and output for a schema text.
DcgExit(text) == IF text \in {"serBad", "ptagBad"} THEN 2 ELSE 0

\* The text of a model file as the patch of the points field reads it, token
\* by token:
\*   "P"  points: list[PTagSeriesPoint] = Field(
\*   "D"  default_factory=list
\*   "T"  # type: ignore
\*   "("  ")"  a parenthesis, " " a blank or tab, "\n" a line end,
\*   "x"  any other text.
PointsOf(text) ==
  CASE text = "ser1" -> <<"x", "\n", " ", "P", "x", ")", "\n">>
    [] text = "ser2" -> <<"x", "\n", " ", "P", "D", ")", "\n">>
    [] OTHER -> <<"x", "\n">>        \* no such declaration

ClassesOf(text) ==
  CASE text \in {"ser1", "ser2"} -> {"PTagSeries", "PTagInterval", "PTagSeriesPoint"}
    [] text = "serNoPoints" -> {"PTagSeries", "PTagInterval"}
    [] text = "serNoCls" -> {"PTagSeries"}
    [] text = "serNoSeries" -> {"PTagInterval"}
    [] text \in {"ptag1", "ptag2"} -> {"PTag"}
    [] OTHER -> {}

DcgOutput(text, crlfPlatform) ==
  write_text(<<>>, [kind |-> "model", src |-> text, points |-> PointsOf(text)],
             crlfPlatform)

\* _run_dcg with a compiler that keeps the comment block at the top of an
\* existing output file when that block is one provenance header.
run_dcg_appending(dir, text, py_name, crlfPlatform) ==
  IF DcgExit(text) # 0 THEN [ok |-> FALSE, rc |-> DcgExit(text), dir |-> dir]
  ELSE [ok |-> TRUE, rc |-> 0,
        dir |-> Put(dir, py_name,
                    IF Has(dir, py_name) /\ Len(dir[<<py_name>>].hdr) = 4
                    THEN [DcgOutput(text, crlfPlatform) EXCEPT
                            !.hdr = dir[<<py_name>>].hdr]
                    ELSE DcgOutput(text, crlfPlatform))]

\* _run_dcg without check=True: the exit status of the compiler is not looked
\* at, and the file is taken as written.
run_dcg_ignoring_status(dir, text, py_name, crlfPlatform) ==
  [ok |-> TRUE, rc |-> 0, dir |-> Put(dir, py_name, DcgOutput(text, crlfPlatform))]

\* _run_dcg: the compiler writes output_file anew (overwriting) and exits 0, or
\* exits nonzero (check=True raises CalledProcessError) without writing.
_run_dcg(dir, text, py_name, crlfPlatform) ==
  IF DcgExit(text) # 0 THEN [ok |-> FALSE, rc |-> DcgExit(text), dir |-> dir]
  ELSE [ok |-> TRUE, rc |-> 0,
        dir |-> Put(dir, py_name, DcgOutput(text, crlfPlatform))]

\* ------------------------------------------------------ post-processing
\* \s matches a blank, a tab or a line end.
IsSpace(c) == c \in {" ", "\n"}

\* $ and ^ under re.MULTILINE.
AtLineEnd(text, i) == i = Len(text) + 1 \/ text[i] = "\n"
AtLineStart(text, i) == i = 1 \/ text[i - 1] = "\n"

\* The first index from i on whose token \s does not match (Len + 1 if none).
RECURSIVE SkipSpace(_, _)
SkipSpace(text, i) ==
  IF i <= Len(text) /\ IsSpace(text[i]) THEN SkipSpace(text, i + 1) ELSE i

\* (?P<indent>^[ \t]*)points: the start of the indent that ends at token i,
\* 0 when something else than blanks lies between the line start and i.
RECURSIVE IndentStart(_, _)
IndentStart(text, i) ==
  IF AtLineStart(text, i) THEN i
  ELSE IF text[i - 1] = " " THEN IndentStart(text, i - 1)
  ELSE 0

\* \s*$ from p on.
SpaceToLineEnd(text, p) == \E q \in p..SkipSpace(text, p) : AtLineEnd(text, q)

\* already_ok matches with its "points:" at token i.
AlreadyOkAt(text, i) ==
  /\ text[i] = "P"
  /\ IndentStart(text, i) # 0
  /\ LET a == SkipSpace(text, i + 1)
     IN /\ a <= Len(text)
        /\ text[a] = "D"
        /\ LET b == SkipSpace(text, a + 1)
           IN /\ b <= Len(text)
              /\ text[b] = ")"
              /\ \E q \in (b + 1)..SkipSpace(text, b + 1) :
                    \/ AtLineEnd(text, q)
                    \/ /\ q <= Len(text)
                       /\ text[q] = "T"
                       /\ SpaceToLineEnd(text, q + 1)

already_ok(text) == \E i \in 1..Len(text) : AlreadyOkAt(text, i)

\* The first ")" after token i, 0 if none: Field\([^)]*\).
FirstClose(text, i) ==
  LET later == { k \in (i + 1)..Len(text) : text[k] = ")" }
  IN IF later = {} THEN 0 ELSE CHOOSE k \in later : \A m \in later : k <= m

\* The tokens at which pattern matches with its "points:".
PatternAt(text) ==
  { i \in 1..Len(text) :
      text[i] = "P" /\ IndentStart(text, i) # 0 /\ FirstClose(text, i) # 0 }

\* replacement: indent, the declaration with the empty default, the comment.
Replacement == <<"P", "D", ")", " ", "T">>

\* pattern.subn(replacement, text, count=1)
points_sub(text) ==
  LET i == CHOOSE k \in PatternAt(text) : \A m \in PatternAt(text) : k <= m
  IN SubSeq(text, 1, i - 1) \o Replacement
       \o SubSeq(text, FirstClose(text, i) + 1, Len(text))

\* _fix_points_field that adds the declaration to a file that has none.
fix_points_field_adding_declaration(f, crlfPlatform) ==
  IF already_ok(f.body.points) THEN [changed |-> FALSE, file |-> f]
  ELSE [changed |-> TRUE,
        file |-> _normalize_line_endings(
                   [f EXCEPT !.body.points =
                               IF PatternAt(f.body.points) = {}
                               THEN f.body.points \o Replacement
                               ELSE points_sub(f.body.points),
                             !.crlf = crlfPlatform, !.fmt = FALSE])]

\* _fix_points_field: [changed, file].
_fix_points_field(f, crlfPlatform) ==
  IF already_ok(f.body.points) \/ PatternAt(f.body.points) = {}
  THEN [changed |-> FALSE, file |-> f]
  ELSE [changed |-> TRUE,
        file |-> _normalize_line_endings(
                   [f EXCEPT !.body.points = points_sub(f.body.points),
                             !.crlf = crlfPlatform, !.fmt = FALSE])]

\* The patch applied to both model files.
patched_files_all == {"ptag_series.py", "ptag.py"}

\* The files generate_all patches.
PatchedFiles == {"ptag_series.py"}

\* The header with the version line ahead of the schema lines.
header_lines_version_first(schema_name, p) ==
  << Line("AUTO-GENERATED", "do not edit by hand"),
     Line("spec-version", p.ver),
     Line("source-schema", schema_name),
     Line("schema-sha256", _sha256_text(p.sch[schema_name])) >>

\* header in _add_schema_header.
HeaderLines(schema_name, p) ==
  << Line("AUTO-GENERATED", "do not edit by hand"),
     Line("source-schema", schema_name),
     Line("schema-sha256", _sha256_text(p.sch[schema_name])),
     Line("spec-version", p.ver) >>

\* _add_schema_header stamping the hash of the record schema into every file.
add_schema_header_wrong_schema(f, schema_name, p, crlfPlatform) ==
  _normalize_line_endings(
    [f EXCEPT !.hdr = << Line("AUTO-GENERATED", "do not edit by hand"),
                         Line("source-schema", schema_name),
                         Line("schema-sha256", _sha256_text(p.sch[PtagSchema])),
                         Line("spec-version", p.ver) >> \o f.hdr,
              !.crlf = crlfPlatform])

\* _add_schema_header: normalise, prepend the four header lines, write, normalise.
_add_schema_header(f, schema_name, p, crlfPlatform) ==
  _normalize_line_endings(
    [_normalize_line_endings(f) EXCEPT
       !.hdr = HeaderLines(schema_name, p) \o f.hdr,
       !.crlf = crlfPlatform])

\* ------------------------------------------------------ symbol resolution
_classes_in_file(f) == ClassesOf(f.body.src)

\* _resolve_symbols that accepts any pair of files.
resolve_symbols_accepting_all(series_py, ptag_py) == None

\* _resolve_symbols without the check of the interval enumeration.
resolve_symbols_without_interval(series_py, ptag_py) ==
  CASE "PTag" \notin _classes_in_file(ptag_py) -> "PTag"
    [] "PTagSeries" \notin _classes_in_file(series_py) -> "PTagSeries"
    [] OTHER -> None

\* _resolve_symbols: the first missing symbol, or None.
_resolve_symbols(series_py, ptag_py) ==
  CASE "PTag" \notin _classes_in_file(ptag_py) -> "PTag"
    [] "PTagSeries" \notin _classes_in_file(series_py) -> "PTagSeries"
    [] "PTagInterval" \notin _classes_in_file(series_py) -> "PTagInterval"
    [] OTHER -> None

_write_meta_py(dir, schema_shas, p, crlfPlatform) ==
  Put(dir, "_meta.py",
      _normalize_line_endings(
        write_text(<<>>, [kind |-> "meta", ver |-> p.ver, shas |-> schema_shas],
                   crlfPlatform)))

_write_init_py(dir, crlfPlatform) ==
  Put(dir, "__init__.py",
      _normalize_line_endings(
        write_text(<<>>, [kind |-> "init",
                          imports |-> << [mod |-> "ptag", name |-> "PTag"],
                                         [mod |-> "ptag_series", name |-> "PTagInterval"],
                                         [mod |-> "ptag_series", name |-> "PTagSeries"] >>,
                          all |-> <<"PTag", "PTagSeries", "PTagInterval">>,
                          version |-> [dist |-> "civic-transparency-py-ptag-types",
                                       fallback |-> "0.0.0+unknown"]],
                   crlfPlatform)))

\* ------------------------------------------------------------ generate_all
\* plan: (schema name, generated file), in the order generate_all runs it.
Plan == << [schema |-> SeriesSchema, py |-> "ptag_series.py"],
           [schema |-> PtagSchema, py |-> "ptag.py"] >>

\* Entries a schema directory may hold besides the two canonical schemas.
OtherEntries == {"series.schema.json", "ptag.schema.json.orig", "README.md", "__init__.py"}

\* c.name.endswith(".schema.json")
EndsWithSchemaJson(name) == name \in SchemaNames \cup {"series.schema.json"}

\* No failure.
NoErr == [kind |-> "none"]

\* _discover_schema_names accepting a directory that holds the series schema.
discover_schema_names_series_only(p) ==
  LET names == { n \in DOMAIN p.sch : EndsWithSchemaJson(n) }
  IN IF names = {} THEN [ok |-> FALSE, err |-> [kind |-> "not found"]]
     ELSE IF SeriesSchema \notin names
     THEN [ok |-> FALSE, err |-> [kind |-> "unresolved", found |-> names]]
     ELSE [ok |-> TRUE, err |-> NoErr, series |-> SeriesSchema, ptag |-> PtagSchema]

\* _discover_schema_names on the entries of the schema directory: the pair
\* (series, ptag), or the FileNotFoundError it raises.
_discover_schema_names(p) ==
  LET names == { n \in DOMAIN p.sch : EndsWithSchemaJson(n) }
  IN IF names = {} THEN [ok |-> FALSE, err |-> [kind |-> "not found"]]
     ELSE IF SeriesSchema \notin names \/ PtagSchema \notin names
     THEN [ok |-> FALSE, err |-> [kind |-> "unresolved", found |-> names]]
     ELSE [ok |-> TRUE, err |-> NoErr, series |-> SeriesSchema, ptag |-> PtagSchema]

GenStopped(pc) == pc \in {"idle", "done", "failed"}

\* The steps generate_all takes on one model file, and the file a step of the
\* run works on ("" for the steps on the whole package).
FileSteps == {"compile", "normalize", "patch", "stamp"}
Step(name, py) == [step |-> name, py |-> py]
Target(st) == IF st.pc \in FileSteps THEN Plan[st.i].py ELSE ""

\* One step of generate_all on the state
\* st = [pc, i, dir, shas, rc, err, out, log].
\* i is the index in the plan of the file being generated, err the exception
\* that ended the run, out the first words of the lines printed so far, log
\* the steps taken so far in this run.
GenStep(st, p, crlfPlatform) ==
  LET item == Plan[st.i]
      file == st.dir[<<item.py>>]
      Done == Append(st.log, Step(st.pc, Target(st)))
      Fail(code, e) == [st EXCEPT !.pc = "failed", !.rc = code, !.err = e,
                                  !.out = @ \cup {"ERROR:"},
                                  !.log = Append(@, Step(st.pc, Target(st)))]
  IN
  CASE st.pc = "discover" ->
         LET d == _discover_schema_names(p)
         IN IF d.ok
            THEN [st EXCEPT !.pc = "compile", !.out = @ \cup {"[discover]"},
                            !.log = Done]
            ELSE Fail(1, d.err)
    [] st.pc = "compile" ->
         LET r == _run_dcg(st.dir, p.sch[item.schema], item.py, crlfPlatform)
         IN IF r.ok THEN [st EXCEPT !.pc = "normalize", !.dir = r.dir,
                                    !.out = @ \cup {"-"}, !.log = Done]
            ELSE Fail(r.rc, [kind |-> "compiler", rc |-> r.rc])
    [] st.pc = "normalize" ->
         [st EXCEPT !.pc = "patch", !.log = Done,
                    !.dir = Put(st.dir, item.py,
                                _format_with_ruff(_normalize_line_endings(file))),
                    !.shas = (item.schema :> _schema_sha(p, item.schema)) @@ st.shas]
    [] st.pc = "patch" ->
         IF item.py \in PatchedFiles
         THEN LET r == _fix_points_field(file, crlfPlatform)
              IN [st EXCEPT !.pc = "stamp", !.log = Done,
                            !.out = @ \cup {"[series]"},
                            !.dir = IF r.changed
                                    THEN Put(st.dir, item.py, _format_with_ruff(r.file))
                                    ELSE st.dir]
         ELSE [st EXCEPT !.pc = "stamp"]
    [] st.pc = "stamp" ->
         [st EXCEPT !.pc = IF st.i < Len(Plan) THEN "compile" ELSE "resolve",
                    !.log = Done,
                    !.i = IF st.i < Len(Plan) THEN st.i + 1 ELSE st.i,
                    !.dir = Put(st.dir, item.py,
                                _format_with_ruff(
                                  _add_schema_header(file, item.schema, p,
                                                     crlfPlatform)))]
    [] st.pc = "resolve" ->
         LET series_py == st.dir[<<"ptag_series.py">>]
             ptag_py == st.dir[<<"ptag.py">>]
             missing == _resolve_symbols(series_py, ptag_py)
         IN IF missing = None
            THEN [st EXCEPT !.pc = "meta", !.log = Done]
            ELSE Fail(1, [kind |-> "symbol", expected |-> missing,
                          found |-> IF missing = "PTag"
                                    THEN _classes_in_file(ptag_py)
                                    ELSE _classes_in_file(series_py)])
    [] st.pc = "meta" ->
         [st EXCEPT !.pc = "init", !.log = Done,
                    !.dir = _write_meta_py(st.dir, st.shas, p, crlfPlatform)]
    [] st.pc = "init" ->
         [st EXCEPT !.pc = "done", !.rc = 0, !.log = Done,
                    !.out = @ \cup {"[init]", "[discover]", "Generation"},
                    !.dir = _write_init_py(st.dir, crlfPlatform)]
    [] OTHER -> st

GenBegin(dir) ==
  [pc |-> "discover", i |-> 1, dir |-> dir, shas |-> EmptyTree, rc |-> 0,
   err |-> NoErr, out |-> {"Generating"}, log |-> <<>>]

RECURSIVE GenRun(_, _, _)
GenRun(st, p, crlfPlatform) ==
  IF GenStopped(st.pc) THEN st ELSE GenRun(GenStep(st, p, crlfPlatform), p, crlfPlatform)

\* generate_types.main(["--out", dir]) run to its end as a child process:
\* [pc, dir, rc, ...] with pc = "done" (exit 0) or "failed" (exit rc).
generate_all(dir, p, crlfPlatform) == GenRun(GenBegin(dir), p, crlfPlatform)

\* ======================================================= check_schema_hash
\* TARGETS, in dict order: schema name -> generated file under SRC.
TARGETS == << [schema |-> "series.schema.json", py |-> "series.py"],
              [schema |-> "provenance_tag.schema.json", py |-> "provenance_tag.py"] >>

TrackedSchemas == { TARGETS[i].schema : i \in 1..Len(TARGETS) }

\* head = splitlines()[:20]
HeadLimit == 20

\* Values the pattern ([0-9a-zA-Z._-]+)\s*$ does not match.
IllFormedValues == {"not a name", ""}

\* The head taken as the whole file.
head_whole_file(f) == f.hdr

\* The comment lines of f that lie within its first 20 lines.
FileHead(f) ==
  SubSeq(f.hdr, 1,
         IF f.pre >= HeadLimit THEN 0
         ELSE IF f.pre + Len(f.hdr) <= HeadLimit THEN Len(f.hdr)
         ELSE HeadLimit - f.pre)

RECURSIVE header_search(_, _, _)
header_search(lines, key, i) ==
  IF i > Len(lines) THEN None
  ELSE IF lines[i].k = key /\ lines[i].v \notin IllFormedValues THEN lines[i].v
  ELSE header_search(lines, key, i + 1)

\* _header_val(text, key): re.search returns the first line "# key: value" whose
\* value the pattern matches.
_header_val(lines, key) == header_search(lines, key, 1)

\* The check of one target: "missing", "header", "crash", "mismatch" or "ok".
\* "crash": files(pkg) / schema_name cannot be read; the exception is not caught.
CheckTarget(t, dir, lp) ==
  IF dir = NoDir \/ <<t.py>> \notin DOMAIN dir THEN "missing"
  ELSE LET head == FileHead(dir[<<t.py>>])
           stamped_name == _header_val(head, "source-schema")
           stamped_sha == _header_val(head, "schema-sha256")
       IN IF stamped_name # t.schema \/ stamped_sha = None THEN "header"
          ELSE IF t.schema \notin DOMAIN lp THEN "crash"
          ELSE IF _sha256_text(lp[t.schema]) # stamped_sha THEN "mismatch"
          ELSE "ok"

\* The loop of main over TARGETS from index i: schema -> outcome, for the targets
\* examined.  A failure continues with the next target; a crash ends the run.
RECURSIVE HashLoop(_, _, _, _)
HashLoop(i, out, dir, lp) ==
  IF i > Len(TARGETS) THEN out
  ELSE LET r == CheckTarget(TARGETS[i], dir, lp)
           out2 == (TARGETS[i].schema :> r) @@ out
       IN IF r = "crash" THEN out2 ELSE HashLoop(i + 1, out2, dir, lp)

\* check_schema_hash.main: [out, crashed, runtime, rc].
\* out: outcome per examined schema; runtime: the empty-points check ran and
\* failed; rc: the exit status (1 as well when the uncaught exception ends it).
HashMain(dir, lp, rtOk) ==
  LET out == HashLoop(1, EmptyTree, dir, lp)
      crashed == \E s \in DOMAIN out : out[s] = "crash"
      ok == (\A s \in DOMAIN out : out[s] = "ok") /\ rtOk
  IN [kind |-> "hash", out |-> out, crashed |-> crashed,
      runtime |-> (~crashed /\ ~rtOk),
      rc |-> IF crashed THEN 1 ELSE IF ok THEN 0 ELSE 1]

\* ================================================================ filecmp
\* A stat tree maps a path to [c, size, m]: bytes, st_size, st_mtime.
\* dircmp's default ignore list.
DEFAULT_IGNORES == {"RCS", "CVS", "tags", ".git", ".hg", ".bzr", "_darcs", "__pycache__"}

IsPrefix(d, p) == Len(d) <= Len(p) /\ SubSeq(p, 1, Len(d)) = d

\* Names listed in directory d of tree t (files and subdirectories).
Listing(t, d) ==
  { p[Len(d) + 1] : p \in { q \in DOMAIN t : IsPrefix(d, q) /\ Len(q) > Len(d) } }
    \ DEFAULT_IGNORES

IsFileAt(t, d, n) == Append(d, n) \in DOMAIN t

\* filecmp.cmp(f1, f2, shallow=True): equal stat signatures (size, mtime) are
\* taken as equal content; otherwise sizes, then bytes, are compared.
filecmp_cmp(f1, f2) ==
  IF f1.size = f2.size /\ f1.m = f2.m THEN TRUE
  ELSE IF f1.size # f2.size THEN FALSE
  ELSE f1.c = f2.c

\* dircmp(left, right) seen at directory d.
LeftOnly(l, r, d) == Listing(l, d) \ Listing(r, d)
RightOnly(l, r, d) == Listing(r, d) \ Listing(l, d)
Common(l, r, d) == Listing(l, d) \cap Listing(r, d)
CommonFiles(l, r, d) == { n \in Common(l, r, d) : IsFileAt(l, d, n) /\ IsFileAt(r, d, n) }
CommonDirs(l, r, d) == { n \in Common(l, r, d) : ~IsFileAt(l, d, n) /\ ~IsFileAt(r, d, n) }
DiffFiles(l, r, d) ==
  { n \in CommonFiles(l, r, d) : ~filecmp_cmp(l[Append(d, n)], r[Append(d, n)]) }

\* ==================================================== check_generated_types
VersionFile == "_version.py"

\* compare_directories.compare_files(dcmp), dcmp being dircmp at directory d.
RECURSIVE compare_files(_, _, _)
compare_files(l, r, d) ==
  /\ LeftOnly(l, r, d) \ {VersionFile} = {}
  /\ RightOnly(l, r, d) \ {VersionFile} = {}
  /\ DiffFiles(l, r, d) \ {VersionFile} = {}
  /\ \A n \in CommonDirs(l, r, d) : compare_files(l, r, Append(d, n))

compare_directories(dir1, dir2) == compare_files(dir1, dir2, <<>>)

\* get_file_differences.collect_diffs: the entries, as a set of [kind, path].
RECURSIVE collect_diffs(_, _, _)
collect_diffs(l, r, d) ==
  { [kind |-> "Only in current", path |-> Append(d, n)] : n \in LeftOnly(l, r, d) }
  \cup { [kind |-> "Only in regenerated", path |-> Append(d, n)] : n \in RightOnly(l, r, d) }
  \cup { [kind |-> "Modified", path |-> Append(d, n)] : n \in DiffFiles(l, r, d) }
  \cup UNION { collect_diffs(l, r, Append(d, n)) : n \in CommonDirs(l, r, d) }

get_file_differences(dir1, dir2) == collect_diffs(dir1, dir2, <<>>)

\* shutil.copytree (copy2): bytes, size and mtime are copied.
copytree(t) == t

\* ------------------------------------------------- tempfile.TemporaryDirectory
\* mkdtemp: a name no existing temporary directory has.
mkdtemp(tmps) == CHOOSE n \in 1..(Cardinality(tmps) + 1) : n \notin tmps

\* A scope exit that leaves the directory behind.
temporary_directory_exit_keeping(tmps, d) == tmps

\* TemporaryDirectory.__exit__: cleanup() removes the directory, whether the
\* with-block ends normally, by return or by an exception.
TemporaryDirectory_exit(tmps, d) == tmps \ {d}

\* check_generated_types.main: [rc, dir, ran, child, tmps]; dir is the tree at
\* DEFAULT_OUT_DIR afterwards, ran whether the generator was started, child the
\* generator's exit status, tmps the temporary directories left.  The
\* generator runs with cwd = repo root and no --out, so it writes DEFAULT_OUT_DIR.
\* fault: an exception other than the expected ones is raised in the with-block
\* (the comparison cannot read a file); the interpreter exits 1.
CheckGeneratedTypesMain(types_dir, script_exists, out_dir, p, crlfPlatform, tmps, fault) ==
  IF types_dir = NoDir \/ ~script_exists
  THEN [kind |-> "cgt", rc |-> 1, dir |-> out_dir, ran |-> FALSE, child |-> 0,
        tmps |-> tmps, out |-> {"ERROR:"}]
  ELSE LET temp_dir == mkdtemp(tmps)
           current_types_backup == copytree(types_dir)
           g == generate_all(out_dir, p, crlfPlatform)
           left == TemporaryDirectory_exit(tmps \cup {temp_dir}, temp_dir)
       IN IF g.pc # "done"
          THEN [kind |-> "cgt", rc |-> 1, dir |-> g.dir, ran |-> TRUE,
                child |-> g.rc, tmps |-> left, out |-> {"ERROR:"}]
          ELSE IF fault
          THEN [kind |-> "cgt", rc |-> 1, dir |-> g.dir, ran |-> TRUE,
                child |-> 0, tmps |-> left, out |-> {"Traceback"}]
          ELSE IF compare_directories(types_dir, current_types_backup)
          THEN [kind |-> "cgt", rc |-> 0, dir |-> g.dir, ran |-> TRUE,
                child |-> 0, tmps |-> left, out |-> {"PASS:"}]
          ELSE [kind |-> "cgt", rc |-> 1, dir |-> g.dir, ran |-> TRUE,
                child |-> 0, tmps |-> left, out |-> {"FAIL:"}]

\* ============================================================ release_check
\* _sha256_file: the digest of a file's bytes, distinct bytes having distinct digests.
_sha256_file(c) == <<"sha256", c>>

\* _compare_dirs that compares only the paths of the two trees.
compare_dirs_paths_only(a, b) ==
  (IF DOMAIN a \ DOMAIN b # {}
   THEN {[kind |-> "Missing in committed types", paths |-> DOMAIN a \ DOMAIN b]}
   ELSE {})
  \cup (IF DOMAIN b \ DOMAIN a # {}
        THEN {[kind |-> "Extra files in committed types", paths |-> DOMAIN b \ DOMAIN a]}
        ELSE {})

\* _compare_dirs(a, b) on the files of the two trees (path -> bytes): the
\* entries of diffs, as a set of [kind, paths].
_compare_dirs(a, b) ==
  LET missing_in_b == DOMAIN a \ DOMAIN b
      missing_in_a == DOMAIN b \ DOMAIN a
  IN (IF missing_in_b # {}
      THEN {[kind |-> "Missing in committed types", paths |-> missing_in_b]} ELSE {})
     \cup (IF missing_in_a # {}
           THEN {[kind |-> "Extra files in committed types", paths |-> missing_in_a]}
           ELSE {})
     \cup { [kind |-> "Content differs", paths |-> {rel}] :
              rel \in { q \in DOMAIN a \cap DOMAIN b :
                          _sha256_file(a[q]) # _sha256_file(b[q]) } }

\* ensure_types_no_drift: [rc, dir, diffs, child, tmps, fault]; the generator writes
\* a fresh temporary directory (--out tmp), which is compared with TYPES_DIR.
\* GEN_SCRIPT is .github/scripts/generate_types.py, beside release_check.py.
\* child: the generator's exit status; tmps: the temporary directories left;
\* fault: _compare_dirs raises (a file cannot be read), the interpreter exits 1.
ensure_types_no_drift(types_dir, p, crlfPlatform, tmps, fault) ==
  LET tmp == mkdtemp(tmps)
      g == generate_all(EmptyTree, p, crlfPlatform)
      diffs == _compare_dirs(g.dir, types_dir)
      left == TemporaryDirectory_exit(tmps \cup {tmp}, tmp)
  IN IF g.pc # "done"
     THEN [kind |-> "entd", rc |-> g.rc, dir |-> types_dir, diffs |-> {},
           child |-> g.rc, tmps |-> left, fault |-> FALSE]
     ELSE IF fault
     THEN [kind |-> "entd", rc |-> 1, dir |-> types_dir, diffs |-> {},
           child |-> 0, tmps |-> left, fault |-> TRUE]
     ELSE [kind |-> "entd", rc |-> IF diffs # {} THEN 1 ELSE 0, dir |-> types_dir,
           diffs |-> diffs, child |-> 0, tmps |-> left, fault |-> FALSE]

\* ================================================================ pipeline
\* The repository's src/ci/transparency/types: its __init__.py, committed.
LegacyInit ==
  [pre |-> 0, hdr |-> <<>>,
   body |-> [kind |-> "legacy-init",
             imports |-> << [mod |-> "meta", name |-> "Meta"],
                            [mod |-> "run", name |-> "Run"],
                            [mod |-> "scenario", name |-> "Scenario"],
                            [mod |-> "series", name |-> "Series"],
                            [mod |-> "provenance_tag", name |-> "ProvenanceTag"] >>,
             all |-> <<"Meta", "Run", "Scenario", "Series", "ProvenanceTag">>],
   crlf |-> FALSE, fmt |-> TRUE]
RepoLegacyTypes == <<"__init__.py">> :> [c |-> LegacyInit, size |-> 7, m |-> "t0"]

Bytes(t) == IF t = NoDir THEN NoDir ELSE [q \in DOMAIN t |-> t[q].c]

GenIdle == [pc |-> "idle", i |-> 1, shas |-> EmptyTree, rc |-> 0, err |-> NoErr,
            out |-> {}, log |-> <<>>, before |-> EmptyTree, runs |-> 0]
NoRes == [kind |-> "none", rc |-> 0]
RelIdle == [pc |-> "idle"]

InitPipeline ==
  /\ pkg \in { q \in Packages : WellTypedPkg(q) /\ q.ver = "0.1.0" }
  /\ platformCrlf \in BOOLEAN
  /\ ptagTypes = EmptyTree
  /\ legacyTypes = RepoLegacyTypes
  /\ scriptsGen \in BOOLEAN
  /\ lpkg = EmptyTree
  /\ runtimeOk = FALSE
  /\ gen = GenIdle
  /\ last = NoSnap
  /\ prev = NoSnap
  /\ fresh = FALSE
  /\ changes = 0
  /\ op = "none"
  /\ res = NoRes
  /\ treeA = EmptyTree
  /\ treeB = EmptyTree
  /\ cmp = NoRes
  /\ tmpdirs = {}
  /\ preflight = RelIdle

EnvUnchanged == UNCHANGED <<platformCrlf, legacyTypes, scriptsGen, lpkg, runtimeOk>>
CmpUnchanged == UNCHANGED <<treeA, treeB, cmp>>

\* python .github/scripts/generate_types.py is started (default --out).
GenStart ==
  /\ GenStopped(gen.pc)
  /\ gen.runs < MaxRuns
  /\ gen' = [pc |-> "discover", i |-> 1, shas |-> EmptyTree, rc |-> 0,
             err |-> NoErr, out |-> {"Generating"}, log |-> <<>>,
             before |-> ptagTypes,
             runs |-> gen.runs + 1]
  /\ prev' = last
  /\ fresh' = FALSE
  /\ op' = "gen"
  /\ res' = NoRes
  /\ UNCHANGED <<pkg, ptagTypes, last, changes, preflight, tmpdirs>>
  /\ EnvUnchanged /\ CmpUnchanged

\* The generator takes the step its pc names.
GenTake ==
  /\ LET st == GenStep([pc |-> gen.pc, i |-> gen.i, dir |-> ptagTypes,
                        shas |-> gen.shas, rc |-> gen.rc, err |-> gen.err,
                        out |-> gen.out, log |-> gen.log], pkg, platformCrlf)
     IN /\ gen' = [pc |-> st.pc, i |-> st.i, shas |-> st.shas, rc |-> st.rc,
                   err |-> st.err, out |-> st.out, log |-> st.log,
                   before |-> IF GenStopped(st.pc) THEN EmptyTree ELSE gen.before,
                   runs |-> gen.runs]
        /\ ptagTypes' = st.dir
        /\ last' = IF st.pc = "done" THEN [dir |-> st.dir, pkg |-> pkg] ELSE last
        /\ fresh' = (st.pc = "done")
  /\ op' = "gen"
  /\ UNCHANGED <<pkg, prev, changes, res, preflight, tmpdirs>>
  /\ EnvUnchanged /\ CmpUnchanged

GenDiscover ==
  /\ gen.pc = "discover"
  /\ GenTake

GenCompile ==
  /\ gen.pc = "compile"
  /\ GenTake

GenNormalize ==
  /\ gen.pc = "normalize"
  /\ GenTake

GenPatch ==
  /\ gen.pc = "patch"
  /\ GenTake

GenStamp ==
  /\ gen.pc = "stamp"
  /\ GenTake

GenResolve ==
  /\ gen.pc = "resolve"
  /\ GenTake

GenMeta ==
  /\ gen.pc = "meta"
  /\ GenTake

GenInit ==
  /\ gen.pc = "init"
  /\ GenTake

\* The installed states one change of the schema package leads to: one schema
\* file is added, removed or given another text, or the version string changes.
Differs(p, q) ==
  Cardinality({ n \in SchemaNames :
                  (n \in DOMAIN p.sch) # (n \in DOMAIN q.sch)
                  \/ (n \in DOMAIN p.sch /\ n \in DOMAIN q.sch /\ p.sch[n] # q.sch[n]) })
  + (IF p.ver # q.ver THEN 1 ELSE 0)

\* The schema package changes (between runs of the tools).
ChangeSchema ==
  /\ GenStopped(gen.pc)
  /\ changes < MaxChanges
  /\ changes' = changes + 1
  /\ pkg' \in { q \in Packages : WellTypedPkg(q) /\ Differs(pkg, q) = 1 }
  /\ fresh' = FALSE
  /\ op' = "change"
  /\ res' = NoRes
  /\ UNCHANGED <<ptagTypes, gen, last, prev, preflight, tmpdirs>>
  /\ EnvUnchanged /\ CmpUnchanged

\* python .github/scripts/check_schema_hash.py
HashCheck ==
  /\ GenStopped(gen.pc)
  /\ res' = HashMain(Bytes(legacyTypes), lpkg, runtimeOk)
  /\ op' = "hash"
  /\ UNCHANGED <<pkg, ptagTypes, gen, last, prev, fresh, changes, preflight, tmpdirs>>
  /\ EnvUnchanged /\ CmpUnchanged

\* python .github/scripts/check_generated_types.py
CheckGeneratedTypes ==
  /\ GenStopped(gen.pc)
  /\ \E fault \in BOOLEAN :
       LET r == CheckGeneratedTypesMain(legacyTypes, scriptsGen, ptagTypes, pkg,
                                        platformCrlf, tmpdirs, fault)
       IN /\ res' = r
          /\ ptagTypes' = res'.dir
          /\ tmpdirs' = res'.tmps
          /\ fresh' = IF res'.ran THEN res'.dir = ptagTypes /\ fresh ELSE fresh
  /\ op' = "cgt"
  /\ UNCHANGED <<pkg, gen, last, prev, changes, preflight>>
  /\ EnvUnchanged /\ CmpUnchanged

\* release_check.ensure_types_no_drift()
EnsureTypesNoDrift ==
  /\ GenStopped(gen.pc)
  /\ \E fault \in BOOLEAN :
       LET r == ensure_types_no_drift(ptagTypes, pkg, platformCrlf, tmpdirs, fault)
       IN /\ res' = r
          /\ ptagTypes' = res'.dir
          /\ tmpdirs' = res'.tmps
  /\ op' = "entd"
  /\ UNCHANGED <<pkg, gen, last, prev, fresh, changes, preflight>>
  /\ EnvUnchanged /\ CmpUnchanged

Next ==
  \/ GenStart
  \/ GenDiscover
  \/ GenCompile
  \/ GenNormalize
  \/ GenPatch
  \/ GenStamp
  \/ GenResolve
  \/ GenMeta
  \/ GenInit
  \/ ChangeSchema
  \/ HashCheck
  \/ CheckGeneratedTypes
  \/ EnsureTypesNoDrift

Spec == InitPipeline /\ [][Next]_vars

\* ------------------------------------------------------- pipeline claims
\* The values the "# key: value" lines of f give for key.
HeaderValues(f, key) == { f.hdr[i].v : i \in { j \in 1..Len(f.hdr) : f.hdr[j].k = key } }

\* C1: after a successful generation run, while the schema package is as it was
\* at generation time, each generated model file carries source-schema = the
\* schema it was compiled from and schema-sha256 = SHA-256 of that schema's
\* text; and where the schema text differs from the one of the previous
\* successful run, the stamped hash differs from the one stamped then.
C1_StampedHashIsSchemaHash ==
  fresh =>
    \A i \in 1..Len(Plan) :
      LET f == ptagTypes[<<Plan[i].py>>]
          s == Plan[i].schema
      IN /\ HeaderValues(f, "source-schema") = {s}
         /\ HeaderValues(f, "schema-sha256") = {_sha256_text(pkg.sch[s])}
         /\ (prev # NoSnap /\ prev.pkg.sch[s] # pkg.sch[s])
              => HeaderValues(prev.dir[<<Plan[i].py>>], "schema-sha256")
                   # HeaderValues(f, "schema-sha256")

\* A generation has succeeded after the series schema text changed since the
\* previous successful generation.
C1_Witness ==
  /\ fresh
  /\ op = "gen"
  /\ prev # NoSnap
  /\ prev.pkg.sch[SeriesSchema] # pkg.sch[SeriesSchema]

\* C2: right after a successful generation into the default output directory,
\* with the schema package unchanged, each verifier (hash check, regeneration
\* check, release drift check) exits 0.
C2_VerifiersPassAfterGeneration ==
  (fresh /\ op \in {"hash", "cgt", "entd"}) => res.rc = 0

\* C3: a successful generation run that follows a successful run with the same
\* schema package leaves every output file identical to the earlier result, and
\* each model file holds exactly one provenance header (four lines).
C3_RegenerationIsIdempotent ==
  (fresh /\ prev # NoSnap /\ prev.pkg = pkg) =>
    /\ ptagTypes = prev.dir
    /\ DOMAIN ptagTypes = {<<"ptag.py">>, <<"ptag_series.py">>, <<"_meta.py">>,
                           <<"__init__.py">>}
    /\ \A i \in 1..Len(Plan) :
         /\ Len(ptagTypes[<<Plan[i].py>>].hdr) = 4
         /\ Cardinality(HeaderValues(ptagTypes[<<Plan[i].py>>], "schema-sha256")) = 1

\* The second of two successful runs with the same schema package has ended.
C3_Witness ==
  /\ fresh
  /\ op = "gen"
  /\ gen.runs = 2
  /\ prev # NoSnap
  /\ prev.pkg = pkg

\* C6: a run of the regeneration diff (check_generated_types.main or
\* release_check.ensure_types_no_drift) leaves the committed generated package
\* directory with the content it had before the run.
C6_DriftCheckLeavesCommittedTree ==
  [][(op' \in {"cgt", "entd"}) => ptagTypes' = ptagTypes]_vars

\* C14: when a child process of an entry point (the generator's schema
\* compiler, the drift checks' generator) exits with a nonzero code, the entry
\* point exits with that code.
C14_ChildExitCodePropagates ==
  /\ (op = "gen" /\ gen.pc = "failed" /\ gen.err.kind = "compiler")
       => gen.rc = DcgExit(pkg.sch[Plan[gen.i].schema])
  /\ (op = "entd" /\ res.child # 0) => res.rc = res.child
  /\ (op = "cgt" /\ res.ran /\ res.child # 0) => res.rc = res.child

\* C15: a generation run that fails on an output directory holding a
\* previously generated package leaves the directory's content as it was
\* before the run.
C15_FailedRunLeavesOutputAsBefore ==
  [][(gen'.pc = "failed" /\ gen.pc # "failed" /\ prev # NoSnap
        /\ gen.before = prev.dir)
       => ptagTypes' = gen.before]_vars

\* C19: when a drift check (check_generated_types.main or
\* ensure_types_no_drift) has ended, no temporary directory it created exists.
C19_TemporaryDirectoriesRemoved ==
  (op \in {"cgt", "entd"}) => tmpdirs = {}

\* The release drift check has ended by an unexpected error inside the scope.
C19_Witness ==
  /\ op = "entd"
  /\ res.fault
  /\ res.rc # 0
  /\ tmpdirs = {}

\* C20: a run of the generator that ends with a nonzero status has printed a
\* line starting FAIL: or ERROR:, and one that ends with status 0 has printed
\* a line starting PASS: or OK:.
C20_OutcomeLinePrinted ==
  /\ (op = "gen" /\ gen.pc = "failed") => gen.out \cap {"FAIL:", "ERROR:"} # {}
  /\ (op = "gen" /\ gen.pc = "done") => gen.out \cap {"PASS:", "OK:"} # {}

\* ===================================== symbol resolution, on its inputs
\* Series schema texts, among them one whose model declares the interval
\* enumeration but not the series class.
SymbolSeriesTexts == SeriesTexts \cup {"serNoSeries", "serNoPoints"}

InitSym ==
  /\ pkg \in { [sch |-> (SeriesSchema :> st) @@ (PtagSchema :> pt), ver |-> "0.1.0"] :
                st \in SymbolSeriesTexts, pt \in PtagTexts }
  /\ platformCrlf \in BOOLEAN
  /\ ptagTypes = EmptyTree
  /\ legacyTypes = RepoLegacyTypes
  /\ scriptsGen = FALSE
  /\ lpkg = EmptyTree
  /\ runtimeOk = FALSE
  /\ gen = GenIdle
  /\ last = NoSnap
  /\ prev = NoSnap
  /\ fresh = FALSE
  /\ changes = 0
  /\ op = "none"
  /\ res = NoRes
  /\ treeA = EmptyTree
  /\ treeB = EmptyTree
  /\ cmp = NoRes
  /\ tmpdirs = {}
  /\ preflight = RelIdle

NextSym ==
  \/ GenStart
  \/ GenDiscover
  \/ GenCompile
  \/ GenNormalize
  \/ GenPatch
  \/ GenStamp
  \/ GenResolve
  \/ GenMeta
  \/ GenInit

SpecSym == InitSym /\ [][NextSym]_vars

\* ------------------------------------------------- importing the packages
\* The file of a submodule of a package.
ModulePath(mod) ==
  CASE mod = "ptag" -> <<"ptag.py">>
    [] mod = "ptag_series" -> <<"ptag_series.py">>
    [] mod = "meta" -> <<"meta.py">>
    [] mod = "run" -> <<"run.py">>
    [] mod = "scenario" -> <<"scenario.py">>
    [] mod = "series" -> <<"series.py">>
    [] OTHER -> <<"provenance_tag.py">>

\* The distributions with version metadata an interpreter may see.
Installations ==
  {EmptyTree, "civic-transparency-py-ptag-types" :> "0.2.4",
   "civic-transparency-types" :> "0.2.4"}

\* import <package>, with tree the files of the package directory and installed
\* the version of each distribution that has metadata: ok (the import
\* returned), names (the attributes bound to a class), all (__all__) and
\* version (__version__, None when the module binds none).
ImportPackage(tree, installed) ==
  LET init == tree[<<"__init__.py">>].body
      Resolves(im) ==
        /\ ModulePath(im.mod) \in DOMAIN tree
        /\ tree[ModulePath(im.mod)].body.kind = "model"
        /\ im.name \in ClassesOf(tree[ModulePath(im.mod)].body.src)
  IN IF \A k \in 1..Len(init.imports) : Resolves(init.imports[k])
     THEN [kind |-> "import", ok |-> TRUE,
           names |-> { init.imports[k].name : k \in 1..Len(init.imports) },
           all |-> init.all,
           version |-> IF "version" \notin DOMAIN init THEN None
                       ELSE IF init.version.dist \in DOMAIN installed
                       THEN installed[init.version.dist]
                       ELSE init.version.fallback]
     ELSE [kind |-> "import", ok |-> FALSE, names |-> {}, all |-> <<>>,
           version |-> None]

\* import ci.transparency.ptag.types
ImportPtagTypes ==
  /\ GenStopped(gen.pc)
  /\ <<"__init__.py">> \in DOMAIN ptagTypes
  /\ \E installed \in Installations :
       res' = [ImportPackage(ptagTypes, installed) EXCEPT !.kind = "import ptag"]
  /\ op' = "import"
  /\ UNCHANGED <<pkg, ptagTypes, gen, last, prev, fresh, changes, preflight, tmpdirs>>
  /\ EnvUnchanged /\ CmpUnchanged

\* import ci.transparency.types, as tests/test_public_api.py does
ImportTypes ==
  /\ GenStopped(gen.pc)
  /\ legacyTypes # NoDir
  /\ <<"__init__.py">> \in DOMAIN legacyTypes
  /\ \E installed \in Installations :
       res' = ImportPackage(Bytes(legacyTypes), installed)
  /\ op' = "import"
  /\ UNCHANGED <<pkg, ptagTypes, gen, last, prev, fresh, changes, preflight, tmpdirs>>
  /\ EnvUnchanged /\ CmpUnchanged

NextImp ==
  \/ GenStart
  \/ GenDiscover
  \/ GenCompile
  \/ GenNormalize
  \/ GenPatch
  \/ GenStamp
  \/ GenResolve
  \/ GenMeta
  \/ GenInit
  \/ ImportPtagTypes
  \/ ImportTypes

SpecImp == InitSym /\ [][NextImp]_vars

\* C22: every import of a public package returns with __version__ bound to a
\* non-empty string (the distribution's version, or "0.0.0+unknown" when the
\* lookup fails) and every name of __all__ bound to a class.
C22_ImportYieldsVersionAndClasses ==
  op = "import" =>
    /\ res.ok
    /\ res.version \notin {None, ""}
    /\ \A k \in 1..Len(res.all) : res.all[k] \in res.names

\* The symbols the public surface needs and the module each is declared in, in
\* the order they are looked for.
ExpectedSymbols ==
  << [name |-> "PTag", mod |-> "ptag"],
     [name |-> "PTagSeries", mod |-> "ptag_series"],
     [name |-> "PTagInterval", mod |-> "ptag_series"] >>

ModuleFile(mod) == IF mod = "ptag" THEN <<"ptag.py">> ELSE <<"ptag_series.py">>

\* The classes declared in the file of module mod in tree dir.
DeclaredIn(dir, mod) == ClassesOf(dir[ModuleFile(mod)].body.src)

\* C16: symbol resolution fails iff PTag is not declared in the record file or
\* PTagSeries or PTagInterval is not declared in the series file; the failure
\* names the first missing symbol and the classes found in its file; the step
\* changes no file.
C16_ResolveSymbols ==
  [][gen.pc = "resolve" =>
       LET missing == { k \in 1..Len(ExpectedSymbols) :
                          ExpectedSymbols[k].name
                            \notin DeclaredIn(ptagTypes, ExpectedSymbols[k].mod) }
       IN /\ ptagTypes' = ptagTypes
          /\ (gen'.pc = "failed") <=> (missing # {})
          /\ missing = {} => gen'.pc = "meta"
          /\ missing # {} =>
               LET first == ExpectedSymbols[CHOOSE k \in missing :
                                              \A j \in missing : k <= j]
               IN gen'.err = [kind |-> "symbol", expected |-> first.name,
                              found |-> DeclaredIn(ptagTypes, first.mod)]
    ]_vars

\* Symbol resolution has failed on a series file that declares PTagSeries but
\* not PTagInterval.
C16_Witness ==
  /\ gen.pc = "failed"
  /\ gen.err.kind = "symbol"
  /\ gen.err.expected = "PTagInterval"
  /\ gen.err.found = {"PTagSeries"}

\* C17: when a generation run has written the public-surface file, each name
\* it imports is declared as a class in the model file of the module it is
\* imported from, the imports are PTag from the record module and PTagSeries
\* and PTagInterval from the series module, and __all__ lists those three.
C17_PublicSurfaceMatchesGenerated ==
  (op = "gen" /\ gen.pc = "done") =>
    LET init == ptagTypes[<<"__init__.py">>].body
    IN /\ init.all = <<"PTag", "PTagSeries", "PTagInterval">>
       /\ { init.imports[k] : k \in 1..Len(init.imports) }
            = { ExpectedSymbols[k] : k \in 1..Len(ExpectedSymbols) }
       /\ \A k \in 1..Len(init.imports) :
            init.imports[k].name \in DeclaredIn(ptagTypes, init.imports[k].mod)

\* A first generation run has written the public surface.
C17_Witness ==
  /\ op = "gen"
  /\ gen.pc = "done"
  /\ gen.runs = 1
  /\ <<"__init__.py">> \in DOMAIN ptagTypes

\* ======================================== schema discovery, on its inputs
\* A schema directory with the entries D.
DirWith(D) ==
  [n \in D |-> IF n = SeriesSchema THEN "ser1"
               ELSE IF n = PtagSchema THEN "ptag1" ELSE "other"]

InitDisc ==
  /\ pkg \in { [sch |-> DirWith(D), ver |-> "0.1.0"] :
                D \in SUBSET (SchemaNames \cup OtherEntries) }
  /\ platformCrlf \in BOOLEAN
  /\ ptagTypes = EmptyTree
  /\ legacyTypes = RepoLegacyTypes
  /\ scriptsGen = FALSE
  /\ lpkg = EmptyTree
  /\ runtimeOk = FALSE
  /\ gen = GenIdle
  /\ last = NoSnap
  /\ prev = NoSnap
  /\ fresh = FALSE
  /\ changes = 0
  /\ op = "none"
  /\ res = NoRes
  /\ treeA = EmptyTree
  /\ treeB = EmptyTree
  /\ cmp = NoRes
  /\ tmpdirs = {}
  /\ preflight = RelIdle

NextDisc ==
  \/ GenStart
  \/ GenDiscover

SpecDisc == InitDisc /\ [][NextDisc]_vars

\* C18: schema discovery succeeds iff both canonical names are among the
\* *.schema.json entries of the schema directory; with no such entry it fails
\* with the not-found error, with a canonical name absent it fails with the
\* error that lists every discovered name; it leaves the schema package as
\* it was.
C18_DiscoverSchemaNames ==
  [][gen.pc = "discover" =>
       LET names == { n \in DOMAIN pkg.sch : EndsWithSchemaJson(n) }
       IN /\ pkg' = pkg
          /\ (gen'.pc = "compile") <=> (SchemaNames \subseteq names)
          /\ names = {} => (gen'.pc = "failed" /\ gen'.err = [kind |-> "not found"])
          /\ (names # {} /\ ~(SchemaNames \subseteq names)) =>
               /\ gen'.pc = "failed"
               /\ gen'.err = [kind |-> "unresolved", found |-> names]
    ]_vars

\* Discovery has failed on a directory that holds the record schema and
\* series.schema.json but not ptag_series.schema.json.
C18_Witness ==
  /\ gen.pc = "failed"
  /\ gen.err.kind = "unresolved"
  /\ gen.err.found = {PtagSchema, "series.schema.json"}

\* =============================================== the hash check, on its inputs
MaxHdr == 3

RECURSIVE SeqsUpTo(_, _)
SeqsUpTo(S, n) ==
  IF n = 0 THEN {<<>>}
  ELSE LET shorter == SeqsUpTo(S, n - 1)
       IN shorter \cup { Append(q, x) : q \in { r \in shorter : Len(r) = n - 1 }, x \in S }

\* Comment lines a committed series.py may hold.
SeriesLines ==
  { Line("source-schema", "series.schema.json"),
    Line("source-schema", "other.schema.json"),
    Line("source-schema", "not a name"),
    Line("schema-sha256", "cafef00d"),
    Line("schema-sha256", "deadbeef") }

\* The comment lines start at the top, end on line 20, or lie below line 20.
Pres == {0, 18, 20}

LegacyBody == [kind |-> "model", src |-> "legacy", points |-> PointsOf("ser2")]

SeriesFiles ==
  { [pre |-> n, hdr |-> h, body |-> LegacyBody, crlf |-> FALSE, fmt |-> TRUE] :
      n \in Pres, h \in SeqsUpTo(SeriesLines, MaxHdr) }

TagFiles ==
  { [pre |-> 0, hdr |-> h, body |-> LegacyBody, crlf |-> FALSE, fmt |-> TRUE] :
      h \in { << Line("source-schema", "provenance_tag.schema.json"),
                 Line("schema-sha256", "f00dface") >>,
              << Line("source-schema", "provenance_tag.schema.json"),
                 Line("schema-sha256", "deadbeef") >>,
              << Line("schema-sha256", "f00dface") >> } }

Stat(f) == [c |-> f, size |-> 7, m |-> "t0"]

\* Every tree of committed files the hash check may meet.
LegacyTrees ==
  { a @@ b :
      a \in {EmptyTree} \cup { <<"series.py">> :> Stat(f) : f \in SeriesFiles },
      b \in {EmptyTree} \cup { <<"provenance_tag.py">> :> Stat(f) : f \in TagFiles } }

\* Every installed state of ci.transparency.spec.schemas.
LegacyPkgs ==
  { a @@ b :
      a \in {EmptyTree, "series.schema.json" :> "legacySer1"},
      b \in {EmptyTree, "provenance_tag.schema.json" :> "legacyTag1"} }

InitHash ==
  /\ pkg = [sch |-> EmptyTree, ver |-> "0.1.0"]
  /\ platformCrlf = FALSE
  /\ ptagTypes = EmptyTree
  /\ legacyTypes \in LegacyTrees
  /\ scriptsGen = FALSE
  /\ lpkg \in LegacyPkgs
  /\ runtimeOk \in BOOLEAN
  /\ gen = GenIdle
  /\ last = NoSnap
  /\ prev = NoSnap
  /\ fresh = FALSE
  /\ changes = 0
  /\ op = "none"
  /\ res = NoRes
  /\ treeA = EmptyTree
  /\ treeB = EmptyTree
  /\ cmp = NoRes
  /\ tmpdirs = {}
  /\ preflight = RelIdle

NextHash == HashCheck

SpecHash == InitHash /\ [][NextHash]_vars

\* A FAIL line was printed for the schema.
Reported(schema) ==
  schema \in DOMAIN res.out /\ res.out[schema] \in {"missing", "header", "mismatch"}

\* The value the first 20 lines of f give for key: that of the earliest line
\* "# key: value" with a well-formed value, or None.
StampOf(f, key) ==
  LET idx == { i \in 1..Len(f.hdr) :
                 /\ f.pre + i <= 20
                 /\ f.hdr[i].k = key
                 /\ f.hdr[i].v \notin IllFormedValues }
  IN IF idx = {} THEN None
     ELSE f.hdr[CHOOSE i \in idx : \A j \in idx : i <= j].v

\* The condition under which a tracked schema is to be reported.
ShouldReport(t) ==
  \/ <<t.py>> \notin DOMAIN legacyTypes
  \/ LET f == legacyTypes[<<t.py>>].c
     IN \/ StampOf(f, "source-schema") # t.schema
        \/ StampOf(f, "schema-sha256") = None
        \/ StampOf(f, "schema-sha256") # _sha256_text(lpkg[t.schema])

\* C4: with the tracked schemas installed, the hash check reports a tracked
\* schema iff its generated file is missing, or its first 20 lines give no
\* source-schema equal to the tracked name or no schema-sha256, or the stamped
\* hash differs from the SHA-256 of the installed schema text.
C4_ReportedIffStale ==
  (op = "hash" /\ TrackedSchemas \subseteq DOMAIN lpkg) =>
    \A i \in 1..Len(TARGETS) : Reported(TARGETS[i].schema) <=> ShouldReport(TARGETS[i])

\* series.py stamped deadbeef against an installed text hashing to cafef00d,
\* the record schema matching: one mismatch, for the series schema.
C4_Witness ==
  /\ op = "hash"
  /\ TrackedSchemas \subseteq DOMAIN lpkg
  /\ <<"series.py">> \in DOMAIN legacyTypes
  /\ <<"provenance_tag.py">> \in DOMAIN legacyTypes
  /\ StampOf(legacyTypes[<<"series.py">>].c, "schema-sha256") = "deadbeef"
  /\ _sha256_text(lpkg["series.schema.json"]) = "cafef00d"
  /\ res.out["series.schema.json"] = "mismatch"
  /\ res.out["provenance_tag.schema.json"] = "ok"
  /\ res.rc = 1

\* C5: every run of the hash check examines every tracked schema, and it
\* returns 1 iff at least one failure was reported and 0 otherwise.
C5_AllExaminedExitTracksFailures ==
  op = "hash" =>
    /\ \A s \in TrackedSchemas : s \in DOMAIN res.out /\ res.out[s] # "crash"
    /\ (res.rc = 1) <=> ((\E s \in TrackedSchemas : Reported(s)) \/ res.runtime)
    /\ (res.rc = 0) <=> ~((\E s \in TrackedSchemas : Reported(s)) \/ res.runtime)

\* ============================================= tree comparison, on its inputs
\* Paths of the compared trees: a model file, a version stamp at the top and a
\* version stamp one directory down.
CmpPaths == { <<"a.py">>, <<VersionFile>>, <<"sub", VersionFile>> }

\* Two byte contents of the same length, and two modification times.
CmpFiles == { [c |-> b, size |-> 1, m |-> t] : b \in {"x", "y"}, t \in {"t1", "t2"} }

CmpTrees == UNION { [D -> CmpFiles] : D \in SUBSET CmpPaths }

InitCmp ==
  /\ pkg = [sch |-> EmptyTree, ver |-> "0.1.0"]
  /\ platformCrlf = FALSE
  /\ ptagTypes = EmptyTree
  /\ legacyTypes = RepoLegacyTypes
  /\ scriptsGen = FALSE
  /\ lpkg = EmptyTree
  /\ runtimeOk = FALSE
  /\ gen = GenIdle
  /\ last = NoSnap
  /\ prev = NoSnap
  /\ fresh = FALSE
  /\ changes = 0
  /\ op = "none"
  /\ res = NoRes
  /\ treeA \in CmpTrees
  /\ treeB \in CmpTrees
  /\ cmp = NoRes
  /\ tmpdirs = {}
  /\ preflight = RelIdle

NotCmp == UNCHANGED <<pkg, platformCrlf, ptagTypes, legacyTypes, scriptsGen, lpkg,
                      runtimeOk, gen, last, prev, fresh, changes, res, preflight,
                      tmpdirs>>

\* release_check: diffs = _compare_dirs(out, TYPES_DIR), treeB regenerated,
\* treeA committed.
CompareRelease ==
  /\ op = "none"
  /\ cmp' = [kind |-> "release", diffs |-> _compare_dirs(Bytes(treeB), Bytes(treeA))]
  /\ op' = "cmp_release"
  /\ UNCHANGED <<treeA, treeB>>
  /\ NotCmp

\* check_generated_types: compare_directories(types_dir, backup) and, when it
\* is False, get_file_differences(backup, types_dir); treeA is the backup.
CompareGenerated ==
  /\ op = "none"
  /\ LET same == compare_directories(treeB, treeA)
     IN cmp' = [kind |-> "generated", same |-> same,
                diffs |-> IF same THEN {} ELSE get_file_differences(treeA, treeB)]
  /\ op' = "cmp_generated"
  /\ UNCHANGED <<treeA, treeB>>
  /\ NotCmp

NextCmp ==
  \/ CompareRelease
  \/ CompareGenerated

SpecCmp == InitCmp /\ [][NextCmp]_vars

\* Paths named by the report of _compare_dirs.
NamedPaths == UNION { e.paths : e \in cmp.diffs }

\* C7: _compare_dirs returns an empty report iff the two trees hold the same
\* relative file paths with identical bytes; otherwise every path on one side
\* only and every common path whose bytes differ is named in the report.
C7_CompareDirsExact ==
  op = "cmp_release" =>
    /\ (cmp.diffs = {}) <=> (Bytes(treeA) = Bytes(treeB))
    /\ \A q \in CmpPaths :
         ( \/ (q \in DOMAIN treeA) # (q \in DOMAIN treeB)
           \/ (q \in DOMAIN treeA /\ q \in DOMAIN treeB /\ treeA[q].c # treeB[q].c) )
         => q \in NamedPaths

\* _compare_dirs has compared trees that differ in a missing path and in the
\* bytes of a common path.
C7_Witness ==
  /\ op = "cmp_release"
  /\ \E q \in DOMAIN treeA : q \notin DOMAIN treeB
  /\ \E q \in DOMAIN treeA \cap DOMAIN treeB : treeA[q].c # treeB[q].c
  /\ Cardinality(cmp.diffs) >= 2

IsVersionPath(q) == q[Len(q)] = VersionFile

\* The files of a tree that are not version stamps, with their bytes.
WithoutVersionFiles(t) == [q \in { r \in DOMAIN t : ~IsVersionPath(r) } |-> t[q].c]

\* C8: both tree comparisons take two trees that differ only in version-stamp
\* files (_version.py, at any depth) as in sync, and list no such file.
C8_VersionStampsIgnored ==
  /\ op = "cmp_release" =>
       /\ (WithoutVersionFiles(treeA) = WithoutVersionFiles(treeB)) => cmp.diffs = {}
       /\ \A q \in NamedPaths : ~IsVersionPath(q)
  /\ op = "cmp_generated" =>
       /\ (WithoutVersionFiles(treeA) = WithoutVersionFiles(treeB)) => cmp.same
       /\ \A e \in cmp.diffs : ~IsVersionPath(e.path)

\* C9: a file at the same relative path in both trees is reported as modified
\* iff its bytes differ, whatever its size and modification time, in both
\* comparisons (version stamps aside).
C9_ModifiedIffBytesDiffer ==
  LET common == { q \in DOMAIN treeA \cap DOMAIN treeB : ~IsVersionPath(q) }
  IN /\ op = "cmp_release" =>
          \A q \in common :
            ([kind |-> "Content differs", paths |-> {q}] \in cmp.diffs)
              <=> treeA[q].c # treeB[q].c
     /\ op = "cmp_generated" =>
          /\ cmp.same => \A q \in common : treeA[q].c = treeB[q].c
          /\ ~cmp.same =>
               \A q \in common :
                 ([kind |-> "Modified", path |-> q] \in cmp.diffs)
                   <=> treeA[q].c # treeB[q].c

\* ========================================================== release preflight
\* Strings the preflight parses are sequences of one-character strings.
Digits == {"0", "1", "2", "3", "4", "5", "6", "7", "8", "9"}
Letters == {"a", "c", "e", "l", "r", "s", "v"}
SuffixChars == Digits \cup Letters \cup {".", "-", "+"}

RECURSIVE lstrip(_)
lstrip(t) == IF t # <<>> /\ t[1] = " " THEN lstrip(Tail(t)) ELSE t

RECURSIVE rstrip(_)
rstrip(t) ==
  IF t # <<>> /\ t[Len(t)] = " " THEN rstrip(SubSeq(t, 1, Len(t) - 1)) ELSE t

\* The length of the longest prefix of t made of digits.
RECURSIVE DigitRun(_)
DigitRun(t) == IF t # <<>> /\ t[1] \in Digits THEN 1 + DigitRun(Tail(t)) ELSE 0

Drop(t, n) == SubSeq(t, n + 1, Len(t))

\* re.fullmatch(r"\d+\.\d+\.\d+[0-9A-Za-z\.\-\+]*", t)
VersionLike(t) ==
  LET n1 == DigitRun(t)
      t1 == Drop(t, n1)
      n2 == IF t1 # <<>> /\ t1[1] = "." THEN DigitRun(Tail(t1)) ELSE 0
      t2 == IF n2 > 0 THEN Drop(Tail(t1), n2) ELSE <<>>
      n3 == IF t2 # <<>> /\ t2[1] = "." THEN DigitRun(Tail(t2)) ELSE 0
      t3 == IF n3 > 0 THEN Drop(Tail(t2), n3) ELSE <<>>
  IN /\ n1 > 0
     /\ n2 > 0
     /\ n3 > 0
     /\ \A i \in 1..Len(t3) : t3[i] \in SuffixChars

\* _normalize_tag on the tag as given, surrounding whitespace kept.
normalize_tag_without_strip(tag) ==
  LET plain == IF tag # <<>> /\ tag[1] = "v" THEN Tail(tag) ELSE tag
  IN [ok |-> VersionLike(plain), raw |-> tag, plain |-> plain]

\* _normalize_tag: [ok, raw, plain]; not ok raises SystemExit(message).
_normalize_tag(tag) ==
  LET raw == rstrip(lstrip(tag))
      plain == IF raw # <<>> /\ raw[1] = "v" THEN Tail(raw) ELSE raw
  IN [ok |-> VersionLike(plain), raw |-> raw, plain |-> plain]

\* Distribution names in a wheel's file name: the one WHEEL_NAME_RX spells
\* and the one of this distribution (generate_types.py line 273).
DistNames == {"civic_transparency_types", "civic_transparency_py_ptag_types"}

\* WHEEL_NAME_RX.search(w.name).group(1) for the wheel
\* <dist>-<ver>-py3-none-any.whl, or None when the pattern does not match.
WheelRxGroup(w) ==
  IF /\ w.dist = "civic_transparency_types"
     /\ w.ver # <<>>
     /\ w.ver[1] \in Digits
     /\ \A i \in 1..Len(w.ver) : w.ver[i] # "-"
  THEN w.ver ELSE <<"None">>

\* _wheel_version on dist/: [ok, have]; not ok raises SystemExit(message).
\* The build leaves at most one wheel in the cleaned dist/.
_wheel_version(dist) ==
  IF ~dist.exists \/ dist.wheels = {} THEN [ok |-> FALSE, have |-> <<"None">>]
  ELSE LET w == CHOOSE x \in dist.wheels : TRUE
       IN [ok |-> WheelRxGroup(w) # <<"None">>, have |-> WheelRxGroup(w)]

\* main after the version check, with the flags ignored.
after_verify_ignoring_flag(args) == "types"

\* main after the drift check, with --run-tests ignored.
after_types_skipping_tests(args) == "list"

\* main after the version check: the drift check if --ensure-types, else on.
AfterTypes(args) == IF args.run_tests THEN "tests" ELSE "list"

AfterVerify(args) == IF args.ensure_types THEN "types" ELSE AfterTypes(args)

Tags ==
  { <<"v", "0", ".", "2", ".", "5">>,
    <<"0", ".", "2", ".", "5">>,
    <<" ", "v", "0", ".", "2", ".", "4", " ">>,
    <<"r", "e", "l", "e", "a", "s", "e", "-", "1">> }

WheelVersions == { <<"0", ".", "2", ".", "5">>, <<"0", ".", "2", ".", "4">> }

NoDist == [exists |-> FALSE, wheels |-> {}]

\* What "uv build" may leave: [rc, dist].  A failed build, a build without
\* a wheel, or a wheel of either distribution name and version.
BuildOutcomes ==
  { [rc |-> 2, dist |-> NoDist], [rc |-> 0, dist |-> [exists |-> TRUE, wheels |-> {}]] }
  \cup { [rc |-> 0, dist |-> [exists |-> TRUE, wheels |-> {[dist |-> d, ver |-> v]}]] :
           d \in DistNames, v \in WheelVersions }

\* Exit codes of "uv run -m pytest -q".
TestOutcomes == {0, 1, 5}

GoodPkg == [sch |-> (SeriesSchema :> "ser1") @@ (PtagSchema :> "ptag1"), ver |-> "0.1.0"]
DriftedPkg == [sch |-> (SeriesSchema :> "ser2") @@ (PtagSchema :> "ptag1"), ver |-> "0.1.0"]
BrokenPkg == [sch |-> (SeriesSchema :> "serBad") @@ (PtagSchema :> "ptag1"), ver |-> "0.1.0"]

InitRel ==
  /\ pkg \in {GoodPkg, DriftedPkg, BrokenPkg}
  /\ platformCrlf = FALSE
  /\ ptagTypes = generate_all(EmptyTree, GoodPkg, FALSE).dir
  /\ legacyTypes = RepoLegacyTypes
  /\ scriptsGen = FALSE
  /\ lpkg = EmptyTree
  /\ runtimeOk = FALSE
  /\ gen = GenIdle
  /\ last = NoSnap
  /\ prev = NoSnap
  /\ fresh = FALSE
  /\ changes = 0
  /\ op = "none"
  /\ res = NoRes
  /\ treeA = EmptyTree
  /\ treeB = EmptyTree
  /\ cmp = NoRes
  /\ tmpdirs = {}
  /\ preflight \in
       { [pc |-> "start", args |-> [tag |-> t, ensure_types |-> e, run_tests |-> r],
          plain |-> <<>>, dist |-> d, dist0 |-> d, rc |-> 0, log |-> <<>>,
          ok |-> {}, child |-> EmptyTree, drift |-> {}] :
           t \in Tags, e \in BOOLEAN, r \in BOOLEAN,
           d \in {NoDist,
                  [exists |-> TRUE,
                   wheels |-> {[dist |-> "civic_transparency_types",
                                ver |-> <<"0", ".", "2", ".", "4">>]}]} }

NotRel == UNCHANGED <<pkg, platformCrlf, ptagTypes, legacyTypes, scriptsGen, lpkg,
                      runtimeOk, gen, last, prev, fresh, changes, res, treeA, treeB,
                      cmp, tmpdirs>>

Started(step) == [preflight EXCEPT !.log = Append(@, step)]
Failed(p, code) == [p EXCEPT !.pc = "failed", !.rc = code]
Passed(p, step, pc) == [p EXCEPT !.pc = pc, !.ok = @ \cup {step}]

\* The preflight removing dist/ before it looks at the tag.
rel_normalize_cleaning_first ==
  /\ preflight.pc = "start"
  /\ LET n == _normalize_tag(preflight.args.tag)
         p == [Started("normalize") EXCEPT !.dist = NoDist]
     IN preflight' = IF n.ok
                     THEN [Passed(p, "normalize", "build") EXCEPT !.plain = n.plain]
                     ELSE Failed(p, 1)
  /\ op' = "rel"
  /\ NotRel

\* raw_tag, plain = _normalize_tag(args.tag)
RelNormalize ==
  /\ preflight.pc = "start"
  /\ LET n == _normalize_tag(preflight.args.tag)
         p == Started("normalize")
     IN preflight' = IF n.ok
                     THEN [Passed(p, "normalize", "build") EXCEPT !.plain = n.plain]
                     ELSE Failed(p, 1)
  /\ op' = "rel"
  /\ NotRel

\* shutil.rmtree(DIST_DIR) if it exists, then _run(["uv", "build"], env=...).
RelBuild ==
  /\ preflight.pc = "build"
  /\ \E b \in BuildOutcomes :
       LET p == [Started("build") EXCEPT !.dist = b.dist,
                                         !.child = ("build" :> b.rc) @@ @]
       IN preflight' = IF b.rc = 0 THEN Passed(p, "build", "verify")
                       ELSE Failed(p, b.rc)
  /\ op' = "rel"
  /\ NotRel

\* have = _wheel_version(); if have != plain: return 1
RelVerify ==
  /\ preflight.pc = "verify"
  /\ LET w == _wheel_version(preflight.dist)
         p == Started("verify")
     IN preflight' = IF w.ok /\ w.have = preflight.plain
                     THEN Passed(p, "verify", AfterVerify(preflight.args))
                     ELSE Failed(p, 1)
  /\ op' = "rel"
  /\ NotRel

\* if args.ensure_types: ensure_types_no_drift()
RelTypes ==
  /\ preflight.pc = "types"
  /\ \E fault \in BOOLEAN :
       LET r == ensure_types_no_drift(ptagTypes, pkg, platformCrlf, tmpdirs, fault)
           p == [Started("types") EXCEPT !.child = ("types" :> r.child) @@ @,
                                         !.drift = r.diffs]
       IN /\ preflight' = IF r.rc = 0
                          THEN Passed(p, "types", AfterTypes(preflight.args))
                          ELSE Failed(p, r.rc)
          /\ ptagTypes' = r.dir
          /\ tmpdirs' = r.tmps
  /\ op' = "rel"
  /\ UNCHANGED <<pkg, platformCrlf, legacyTypes, scriptsGen, lpkg, runtimeOk, gen,
                 last, prev, fresh, changes, res, treeA, treeB, cmp>>

\* if args.run_tests: _run(["uv", "run", "-m", "pytest", "-q"])
RelTests ==
  /\ preflight.pc = "tests"
  /\ \E t \in TestOutcomes :
       LET p == [Started("tests") EXCEPT !.child = ("tests" :> t) @@ @]
       IN preflight' = IF t = 0 THEN Passed(p, "tests", "list") ELSE Failed(p, t)
  /\ op' = "rel"
  /\ NotRel

\* _list_artifacts(); return 0
RelList ==
  /\ preflight.pc = "list"
  /\ preflight' = [Passed(Started("list"), "list", "done") EXCEPT
                     !.rc = 0, !.log = Append(@, "exit0")]
  /\ op' = "rel"
  /\ NotRel

NextRel ==
  \/ RelNormalize
  \/ RelBuild
  \/ RelVerify
  \/ RelTypes
  \/ RelTests
  \/ RelList

SpecRel == InitRel /\ [][NextRel]_vars

\* The steps of the preflight, in the order the claim gives.
StepOrder == <<"normalize", "build", "verify", "types", "tests", "list", "exit0">>

StepIndex(step) == CHOOSE i \in 1..Len(StepOrder) : StepOrder[i] = step

StepEnabled(step) ==
  /\ step = "types" => preflight.args.ensure_types
  /\ step = "tests" => preflight.args.run_tests

\* C10: in every run of the preflight the steps start in the order tag
\* normalization, build, wheel-version verification, regeneration diff,
\* test suite, artifact listing, exit 0; a step starts only after every
\* earlier step that is enabled has started before it and succeeded; a step
\* whose flag was not given never starts.
C10_StepsInOrder ==
  \A k \in 1..Len(preflight.log) :
    LET step == preflight.log[k]
    IN /\ StepEnabled(step)
       /\ \A j \in 1..(k - 1) : StepIndex(preflight.log[j]) < StepIndex(step)
       /\ \A i \in 1..(StepIndex(step) - 1) :
            StepEnabled(StepOrder[i]) =>
              /\ \E j \in 1..(k - 1) : preflight.log[j] = StepOrder[i]
              /\ StepOrder[i] \in preflight.ok

\* A preflight with both flags given has run all its steps and exited 0.
C10_Witness ==
  /\ preflight.pc = "done"
  /\ preflight.rc = 0
  /\ preflight.args.ensure_types
  /\ preflight.args.run_tests
  /\ preflight.log = StepOrder

\* ------------------------------------------------------- preflight claims
\* The tag without surrounding whitespace.
Stripped(t) ==
  LET idx == { i \in 1..Len(t) : t[i] # " " }
  IN IF idx = {} THEN <<>>
     ELSE SubSeq(t, CHOOSE i \in idx : \A j \in idx : i <= j,
                    CHOOSE i \in idx : \A j \in idx : i >= j)

\* The stripped tag without one leading "v".
Remainder(t) ==
  LET r == Stripped(t) IN IF r # <<>> /\ r[1] = "v" THEN Tail(r) ELSE r

\* r is <digits>.<digits>.<digits> followed by characters of [0-9A-Za-z.+-].
MatchesVersion(r) ==
  \E i, j, k \in 1..Len(r) :
    /\ i + 2 <= j
    /\ j + 2 <= k
    /\ \A n \in 1..i : r[n] \in Digits
    /\ r[i + 1] = "."
    /\ \A n \in (i + 2)..j : r[n] \in Digits
    /\ r[j + 1] = "."
    /\ \A n \in (j + 2)..k : r[n] \in Digits
    /\ \A n \in (k + 1)..Len(r) : r[n] \in Digits \cup Letters \cup {".", "+", "-"}

HasStarted(step) == \E k \in 1..Len(preflight.log) : preflight.log[k] = step

\* C11: the preflight exits 0 only if the build exited 0, the version in the
\* built wheel equals the normalized tag, with --ensure-types the regenerated
\* package equals the committed one, and with --run-tests the tests exited 0.
C11_ExitZeroOnlyIfAllPassed ==
  (preflight.pc = "done" /\ preflight.rc = 0) =>
    /\ "build" \in DOMAIN preflight.child
    /\ preflight.child["build"] = 0
    /\ preflight.dist.wheels # {}
    /\ \A w \in preflight.dist.wheels : w.ver = Remainder(preflight.args.tag)
    /\ preflight.args.ensure_types =>
         LET g == generate_all(EmptyTree, pkg, platformCrlf)
         IN g.pc = "done" /\ g.dir = ptagTypes
    /\ preflight.args.run_tests =>
         ("tests" \in DOMAIN preflight.child /\ preflight.child["tests"] = 0)

\* A preflight for tag v0.2.5 with both flags given has exited 0.
C11_Witness ==
  /\ preflight.pc = "done"
  /\ preflight.rc = 0
  /\ preflight.args = [tag |-> <<"v", "0", ".", "2", ".", "5">>,
                       ensure_types |-> TRUE, run_tests |-> TRUE]

\* C12: once the version verification has run, it has passed iff the version
\* in the built wheel's file name equals the normalized tag; when it has not
\* passed the preflight has exited nonzero and no later step has started.
C12_VersionVerification ==
  HasStarted("verify") =>
    LET match == /\ preflight.dist.wheels # {}
                 /\ \A w \in preflight.dist.wheels : w.ver = preflight.plain
    IN /\ ("verify" \in preflight.ok) <=> match
       /\ ~match => /\ preflight.pc = "failed"
                     /\ preflight.rc # 0
                     /\ ~HasStarted("types")
                     /\ ~HasStarted("tests")
                     /\ ~HasStarted("list")

\* ============================================== tag normalization, on its inputs
MaxTagLen == 6

TagAlphabet == {" ", "v", "1", ".", "_"}

InitTag ==
  /\ pkg = GoodPkg
  /\ platformCrlf = FALSE
  /\ ptagTypes = EmptyTree
  /\ legacyTypes = RepoLegacyTypes
  /\ scriptsGen = FALSE
  /\ lpkg = EmptyTree
  /\ runtimeOk = FALSE
  /\ gen = GenIdle
  /\ last = NoSnap
  /\ prev = NoSnap
  /\ fresh = FALSE
  /\ changes = 0
  /\ op = "none"
  /\ res = NoRes
  /\ treeA = EmptyTree
  /\ treeB = EmptyTree
  /\ cmp = NoRes
  /\ tmpdirs = {}
  /\ preflight \in
       { [pc |-> "start", args |-> [tag |-> t, ensure_types |-> FALSE, run_tests |-> FALSE],
          plain |-> <<>>, dist |-> NoDist, dist0 |-> NoDist, rc |-> 0,
          log |-> <<>>, ok |-> {}, child |-> EmptyTree, drift |-> {}] :
           t \in SeqsUpTo(TagAlphabet, MaxTagLen) \cup Tags }

NextTag == RelNormalize

SpecTag == InitTag /\ [][NextTag]_vars

\* C13: the tag normalization accepts a tag iff, surrounding whitespace and at
\* most one leading "v" removed, the remainder matches
\* <digits>.<digits>.<digits>[0-9A-Za-z.+-]*; an accepted tag yields that
\* remainder as the version, any other tag ends the preflight with exit 1.
C13_NormalizeTag ==
  preflight.pc # "start" =>
    LET r == Remainder(preflight.args.tag)
    IN IF MatchesVersion(r)
       THEN preflight.pc = "build" /\ preflight.plain = r
       ELSE preflight.pc = "failed" /\ preflight.rc = 1
            /\ preflight.log = <<"normalize">>

\* Tag v0.2.5 has been normalized to 0.2.5.
C13_Witness ==
  /\ preflight.args.tag = <<"v", "0", ".", "2", ".", "5">>
  /\ preflight.pc = "build"
  /\ preflight.plain = <<"0", ".", "2", ".", "5">>

\* ================================================ claims on the header lines
\* C21: after a successful generation run the first four lines of each model
\* file are, in this order, the AUTO-GENERATED marker, source-schema with the
\* schema file name, schema-sha256 with the digest of that schema's text and
\* spec-version with the version of the schema package, and the compiled model
\* text of that schema follows them.
C21_FirstFourLines ==
  fresh =>
    \A i \in 1..Len(Plan) :
      LET f == ptagTypes[<<Plan[i].py>>]
          s == Plan[i].schema
      IN /\ f.pre = 0
         /\ Len(f.hdr) = 4
         /\ f.hdr[1] = Line("AUTO-GENERATED", "do not edit by hand")
         /\ f.hdr[2] = Line("source-schema", s)
         /\ f.hdr[3] = Line("schema-sha256", _sha256_text(pkg.sch[s]))
         /\ f.hdr[4] = Line("spec-version", pkg.ver)
         /\ f.body.kind = "model"
         /\ f.body.src = pkg.sch[s]

\* A second generation run has succeeded over the files of the first one.
C21_Witness ==
  /\ fresh
  /\ op = "gen"
  /\ gen.pc = "done"
  /\ gen.runs = 2
  /\ Len(ptagTypes[<<"ptag.py">>].hdr) = 4

\* =================================================== the points-field patch
\* _fix_points_field applied to series files of up to MaxTextLen tokens, up to
\* MaxApply times in a row.
MaxTextLen == 4
MaxApply == 2

Tokens == {"P", "D", "T", "(", ")", " ", "\n", "x"}

\* The parentheses of the tokens from k on are balanced, depth of them being
\* open before k ("P" ends with the parenthesis that opens the Field call).
RECURSIVE Balanced(_, _, _)
Balanced(text, k, depth) ==
  IF k > Len(text) THEN depth = 0
  ELSE IF text[k] = ")" THEN depth > 0 /\ Balanced(text, k + 1, depth - 1)
  ELSE IF text[k] \in {"(", "P"} THEN Balanced(text, k + 1, depth + 1)
  ELSE Balanced(text, k + 1, depth)

\* The series files: the compiler writes Python that parses.
SeriesTokenTexts == { text \in SeqsUpTo(Tokens, MaxTextLen) : Balanced(text, 1, 0) }

SeriesFileOf(text) ==
  MkFile(<<>>, [kind |-> "model", src |-> "ser1", points |-> text], FALSE, TRUE)

InitFix ==
  /\ pkg = GoodPkg
  /\ platformCrlf \in BOOLEAN
  /\ ptagTypes \in { <<"ptag_series.py">> :> SeriesFileOf(text) :
                       text \in SeriesTokenTexts }
  /\ legacyTypes = RepoLegacyTypes
  /\ scriptsGen = FALSE
  /\ lpkg = EmptyTree
  /\ runtimeOk = FALSE
  /\ gen = GenIdle
  /\ last = NoSnap
  /\ prev = NoSnap
  /\ fresh = FALSE
  /\ changes = 0
  /\ op = "none"
  /\ res = [kind |-> "fix", n |-> 0, changed |-> FALSE, before |-> EmptyTree]
  /\ treeA = EmptyTree
  /\ treeB = EmptyTree
  /\ cmp = NoRes
  /\ tmpdirs = {}
  /\ preflight = RelIdle

\* _fix_points_field(out_dir / "ptag_series.py")
FixPointsField ==
  /\ res.n < MaxApply
  /\ LET r == _fix_points_field(ptagTypes[<<"ptag_series.py">>], platformCrlf)
     IN /\ ptagTypes' = IF r.changed THEN Put(ptagTypes, "ptag_series.py", r.file)
                                     ELSE ptagTypes
        /\ res' = [kind |-> "fix", n |-> res.n + 1, changed |-> r.changed,
                   before |-> ptagTypes]
  /\ op' = "fix"
  /\ UNCHANGED <<pkg, gen, last, prev, fresh, changes, preflight, tmpdirs>>
  /\ EnvUnchanged /\ CmpUnchanged

NextFix == FixPointsField

SpecFix == InitFix /\ [][NextFix]_vars

\* C23: a second application of the points patch returns False and writes
\* nothing, whatever the arguments of the original Field call were.
C23_FixPointsFieldIdempotent ==
  (op = "fix" /\ res.n >= 2) => (~res.changed /\ ptagTypes = res.before)

\* The token closing the parenthesis that is open before token k, depth more
\* parentheses being open inside it; 0 if it is never closed.
RECURSIVE CloseOf(_, _, _)
CloseOf(text, k, depth) ==
  IF k > Len(text) THEN 0
  ELSE IF text[k] = ")"
  THEN IF depth = 0 THEN k ELSE CloseOf(text, k + 1, depth - 1)
  ELSE IF text[k] \in {"(", "P"} THEN CloseOf(text, k + 1, depth + 1)
  ELSE CloseOf(text, k + 1, depth)

\* The declarations points: list[PTagSeriesPoint] = Field(...) of a text: the
\* tokens "P" that only blanks separate from the start of their line and whose
\* Field call is closed.
Declarations(text) ==
  { i \in 1..Len(text) :
      /\ text[i] = "P"
      /\ \E j \in 1..i : /\ (j = 1 \/ text[j - 1] = "\n")
                         /\ \A m \in j..(i - 1) : text[m] = " "
      /\ CloseOf(text, i + 1, 0) # 0 }

\* The text with its first declaration replaced by the declaration with the
\* empty-list default and the type-ignore comment.
FirstDeclarationReplaced(text) ==
  LET i == CHOOSE k \in Declarations(text) : \A m \in Declarations(text) : k <= m
  IN SubSeq(text, 1, i - 1) \o <<"P", "D", ")", " ", "T">>
       \o SubSeq(text, CloseOf(text, i + 1, 0) + 1, Len(text))

\* C24: when the points patch returns True, the file is the file before with
\* exactly its first declaration points: list[PTagSeriesPoint] = Field(...)
\* replaced by ... = Field(default_factory=list)  # type: ignore at the same
\* indentation and nothing else changed; when it returns False the file is as
\* before.
C24_FixPointsFieldReplacesFirstDeclaration ==
  op = "fix" =>
    LET old == res.before[<<"ptag_series.py">>]
        new == ptagTypes[<<"ptag_series.py">>]
    IN IF res.changed
       THEN /\ Declarations(old.body.points) # {}
            /\ new.body.points = FirstDeclarationReplaced(old.body.points)
            /\ new.body.src = old.body.src
            /\ new.hdr = old.hdr
            /\ ~new.crlf
       ELSE ptagTypes = res.before

\* C25: when the patch step finds no declaration points:
\* list[PTagSeriesPoint] = Field(...) in the series file, it changes no file and
\* the run goes on to the stamp; no run fails at the patch step.
C25_NoDeclarationNoFailure ==
  /\ [][(gen.pc = "patch" /\ Plan[gen.i].py = "ptag_series.py"
          /\ Declarations(ptagTypes[<<"ptag_series.py">>].body.points) = {})
         => (ptagTypes' = ptagTypes /\ gen'.pc = "stamp")]_vars
  /\ [](gen.pc = "failed" => gen.log[Len(gen.log)].step # "patch")

\* A run over a series model without the declaration has been stamped, resolved
\* and assembled and has ended with exit status 0.
C25_Witness ==
  /\ gen.pc = "done"
  /\ gen.rc = 0
  /\ Declarations(PointsOf(pkg.sch[SeriesSchema])) = {}
  /\ Step("patch", "ptag_series.py") \in { gen.log[k] : k \in 1..Len(gen.log) }
  /\ Step("init", "") \in { gen.log[k] : k \in 1..Len(gen.log) }
  /\ ptagTypes[<<"ptag_series.py">>].body.points = PointsOf(pkg.sch[SeriesSchema])

\* ================================================ claims on the step order
\* The steps of the running or last generator run on file py, in order.
FileLog(py) ==
  LET OnFile(entry) == entry.py = py
      entries == SelectSeq(gen.log, OnFile)
  IN [k \in 1..Len(entries) |-> entries[k].step]

\* The position of the stamp of file py in the log, 0 if it is not stamped.
StampedAt(py) ==
  LET at == { k \in 1..Len(gen.log) : gen.log[k] = [step |-> "stamp", py |-> py] }
  IN IF at = {} THEN 0 ELSE CHOOSE k \in at : \A m \in at : k <= m

\* C26: in every generation run the steps on the series file are a prefix of
\* compile, normalize, patch, stamp and those on the record file a prefix of
\* compile, normalize, stamp (so each file is stamped at most once, after its
\* last content change), and symbol resolution and the assembly of the package
\* come after the stamps of both files.
C26_StepOrderPerFile ==
  /\ IsPrefix(FileLog("ptag_series.py"), <<"compile", "normalize", "patch", "stamp">>)
  /\ IsPrefix(FileLog("ptag.py"), <<"compile", "normalize", "stamp">>)
  /\ \A k \in 1..Len(gen.log) :
       gen.log[k].step \in {"resolve", "meta", "init"} =>
         \A i \in 1..Len(Plan) :
           StampedAt(Plan[i].py) # 0 /\ StampedAt(Plan[i].py) < k
  /\ gen.pc = "done" =>
       \A i \in 1..Len(Plan) :
         /\ StampedAt(Plan[i].py) # 0
         /\ Len(ptagTypes[<<Plan[i].py>>].hdr) = 4

\* A run has ended with both files compiled, normalised, the series file
\* patched, both stamped, and the package resolved and assembled.
C26_Witness ==
  /\ gen.pc = "done"
  /\ gen.runs = 2
  /\ Len(gen.log) = 11
  /\ FileLog("ptag_series.py") = <<"compile", "normalize", "patch", "stamp">>
  /\ ptagTypes[<<"ptag_series.py">>].body.points = <<"x", "\n", " ", "P", "D", ")", " ", "T", "\n">>

\* The schema a model file is compiled from.
SchemaOf(py) == IF py = "ptag.py" THEN PtagSchema ELSE SeriesSchema

\* The run has failed at the step of position k of its log.
FailedAt(k) == k = Len(gen.log) /\ gen.pc = "failed" /\ gen.rc # 0

\* C27: a generator run stops at the step that fails and exits nonzero: a
\* discovery without both schemas, a compilation the compiler exits nonzero
\* on and a resolution with a symbol missing are each the last step of their
\* run, and a failed run has neither written _meta.py nor __init__.py.
C27_FailureAbortsAtFailingStep ==
  op = "gen" =>
    /\ \A k \in 1..Len(gen.log) :
         LET entry == gen.log[k]
         IN /\ (entry.step = "discover" /\ ~(SchemaNames \subseteq DOMAIN pkg.sch))
                 => FailedAt(k)
            /\ (entry.step = "compile" /\ DcgExit(pkg.sch[SchemaOf(entry.py)]) # 0)
                 => FailedAt(k)
            /\ (entry.step = "resolve"
                  /\ \E j \in 1..Len(ExpectedSymbols) :
                       ExpectedSymbols[j].name
                         \notin DeclaredIn(ptagTypes, ExpectedSymbols[j].mod))
                 => FailedAt(k)
    /\ gen.pc = "failed" =>
         /\ gen.rc # 0
         /\ \A k \in 1..Len(gen.log) : gen.log[k].step \notin {"meta", "init"}
         /\ gen.log[Len(gen.log)].step \in {"discover", "compile", "resolve"}

\* The compiler has failed for the record schema after the series file was
\* stamped: the run has ended there with the compiler's exit status.
C27_Witness ==
  /\ op = "gen"
  /\ gen.pc = "failed"
  /\ gen.rc = 2
  /\ gen.log[Len(gen.log)] = [step |-> "compile", py |-> "ptag.py"]
  /\ StampedAt("ptag_series.py") # 0
  /\ StampedAt("ptag.py") = 0

\* ============================================== line-ending normalisation
\* _normalize_line_endings applied to files of up to MaxBytes bytes, up to
\* MaxApply times in a row.
MaxBytes == 4

ByteValues == {"CR", "LF", "a"}

InitEol ==
  /\ pkg = GoodPkg
  /\ platformCrlf = FALSE
  /\ ptagTypes \in { <<"ptag.py">> :> content : content \in SeqsUpTo(ByteValues, MaxBytes) }
  /\ legacyTypes = RepoLegacyTypes
  /\ scriptsGen = FALSE
  /\ lpkg = EmptyTree
  /\ runtimeOk = FALSE
  /\ gen = GenIdle
  /\ last = NoSnap
  /\ prev = NoSnap
  /\ fresh = FALSE
  /\ changes = 0
  /\ op = "none"
  /\ res = [kind |-> "eol", n |-> 0, written |-> FALSE, before |-> EmptyTree]
  /\ treeA = EmptyTree
  /\ treeB = EmptyTree
  /\ cmp = NoRes
  /\ tmpdirs = {}
  /\ preflight = RelIdle

\* _normalize_line_endings(out_dir / "ptag.py")
NormalizeLineEndings ==
  /\ res.n < MaxApply
  /\ LET r == normalize_bytes(ptagTypes[<<"ptag.py">>])
     IN /\ ptagTypes' = IF r.written THEN (<<"ptag.py">> :> r.content) ELSE ptagTypes
        /\ res' = [kind |-> "eol", n |-> res.n + 1, written |-> r.written,
                   before |-> ptagTypes]
  /\ op' = "eol"
  /\ UNCHANGED <<pkg, gen, last, prev, fresh, changes, preflight, tmpdirs>>
  /\ EnvUnchanged /\ CmpUnchanged

NextEol == NormalizeLineEndings

SpecEol == InitEol /\ [][NextEol]_vars

\* C28: after the normalisation of line endings a file holds no carriage
\* return followed by a line feed, whatever it held before, and a second
\* normalisation changes nothing.
C28_NoCrlfAfterNormalize ==
  op = "eol" =>
    LET content == ptagTypes[<<"ptag.py">>]
    IN /\ \A k \in 1..(Len(content) - 1) : ~(content[k] = "CR" /\ content[k + 1] = "LF")
       /\ res.n >= 2 => (~res.written /\ ptagTypes = res.before)

\* ============================================ the hash check's exit status
\* C29: the exit status of the hash check is decided by the stamped headers
\* and the installed schema texts alone: a run that sees the same committed
\* files and schemas, and differs only in whether the committed package
\* imports and accepts a series without points, ends with the same status.
C29_HashCheckIgnoresRuntimeCheck ==
  op = "hash" => res.rc = HashMain(Bytes(legacyTypes), lpkg, ~runtimeOk).rc

\* ================================================ the rejected release tag
\* C30: a preflight whose tag is not a version (surrounding whitespace and one
\* leading "v" removed) ends before anything is removed or started: dist/ is
\* as it was before the run, no child process has run, no temporary directory
\* was made and the only step begun is the normalisation of the tag.
C30_InvalidTagTouchesNothing ==
  (preflight.pc # "start" /\ ~MatchesVersion(Remainder(preflight.args.tag))) =>
    /\ preflight.pc = "failed"
    /\ preflight.rc # 0
    /\ preflight.dist = preflight.dist0
    /\ preflight.child = EmptyTree
    /\ preflight.log = <<"normalize">>
    /\ tmpdirs = {}

\* A preflight with a tag that is no version has ended beside a dist/ that
\* holds the wheel of an earlier build.
C30_Witness ==
  /\ preflight.pc = "failed"
  /\ ~MatchesVersion(Remainder(preflight.args.tag))
  /\ preflight.dist0.exists
  /\ preflight.dist0.wheels # {}
  /\ preflight.dist = preflight.dist0

====
